---- MODULE Spec2Model ----
(***************************************************************************)
(* Model of pdf-compressor.py: the command line entry point main(), the    *)
(* Ghostscript wrapper PDFCompressor._compress_pdf and the preset ladder   *)
(* of PDFCompressor.compress_to_target_size.                               *)
(*                                                                         *)
(* Sizes are integers in one unit (the code compares byte counts divided   *)
(* by 2^20, which keeps their order).  A text is a sequence of tokens;     *)
(* "x in text" of the code is token membership and str.lower() maps each   *)
(* token to its lower-case form.  The temporary directory is a function    *)
(* from file names to file contents.                                       *)
(***************************************************************************)
EXTENDS Integers, Sequences, FiniteSets, TLC

VARIABLES pc, args, installed, ghostscript_cmd, password, input_file,
          i, success, error_msg, best_file, best_size, best_quality,
          last_error, temp_dir, temp_files, output_file, attempts,
          result, printed_hint, exit_code, engine_result, run, first

vars == <<pc, args, installed, ghostscript_cmd, password, input_file,
          i, success, error_msg, best_file, best_size, best_quality,
          last_error, temp_dir, temp_files, output_file, attempts,
          result, printed_hint, exit_code, engine_result, run, first>>

\* ---------------------------------------------------------------- bounds
MaxSize == 3
MaxTarget == 2

\* ------------------------------------------------------------- constants
None == "None"
NoFile == <<>>
NoContent == [size |-> -1, from |-> "nothing"]
NotExited == -1
Inf == MaxSize + MaxTarget + 1

quality_order == <<"screen", "ebook", "printer", "prepress">>

QUALITY_SETTINGS ==
    [q \in {"screen", "ebook", "printer", "prepress"} |->
        CASE q = "screen" -> "/screen"
          [] q = "ebook" -> "/ebook"
          [] q = "printer" -> "/printer"
          [] q = "prepress" -> "/prepress"]

\* quality_order.index(q)
index(q) == CHOOSE k \in 1..Len(quality_order) : quality_order[k] = q

\* ----------------------------------------------------------------- texts
T_EMPTY == <<>>
T_ENCRYPTED == <<"Error:", "file", "is", "ENCRYPTED">>
T_PASSWORD == <<"Password", "required">>
T_UNRECOVERABLE == <<"Unrecoverable", "error">>

\* The program's own messages are Japanese; each is written here as ASCII
\* tokens.  KATAKANA_PASSWORD stands for the katakana word for "password",
\* the substring main() looks for at line 256.
KATAKANA_PASSWORD == "<pasuwaado>"
MSG_SUCCESS == <<"<seikou>">>
MSG_UNKNOWN == <<"<fumei na eraa>">>
MSG_TIMEOUT == <<"<taimuauto (60 byou)>">>
MSG_EXEC_PREFIX == <<"<jikkou eraa>:">>
MSG_NOT_FOUND == <<"<nyuuryoku fairu ga mitsukarimasen>:", "input_path">>
MSG_COPIED == <<"<kopii kanryou>">>
MSG_MET == <<"<asshuku seikou>">>
MSG_PARTIAL == <<"<bubun asshuku>">>
MSG_LAST_PREFIX == <<"<asshuku ni shippai shimashita. saigo no eraa>:">>
MSG_ALL_FAILED == <<"<subete no hinshitsu reberu de asshuku ni shippai>">>
MSG_PASSWORD_HINT == <<KATAKANA_PASSWORD, "<tsuki PDF no kanousei>", "-p",
                       "<opushon de>", KATAKANA_PASSWORD, "<wo shitei>">>

\* str.lower() on one token
LowerToken(t) ==
    CASE t = "ENCRYPTED" -> "encrypted"
      [] t = "Password" -> "password"
      [] t = "Error:" -> "error:"
      [] t = "Unrecoverable" -> "unrecoverable"
      [] OTHER -> t

\* str.lower()
lower(text) == [k \in 1..Len(text) |-> LowerToken(text[k])]

\* word in text
Contains(text, word) == \E k \in 1..Len(text) : text[k] = word

\* ------------------------------------------------------ the file system
\* os.path.join(temp_dir, f"compressed_{quality}.pdf") and the retained names
TempOutputPath(quality) == <<"compressed", quality>>
BestPath(quality) == <<"best", quality>>
FallbackPath(quality) == <<"fallback", quality>>

\* os.path.exists(path) for a path inside the temporary directory
exists(files, path) == path \in DOMAIN files

\* shutil.copy2(src, dst) inside the temporary directory
copy2(files, src, dst) == (dst :> files[src]) @@ files

\* an os.remove that leaves the file in place
remove_Noop(files, path) == files

\* os.remove(path)
remove(files, path) == [p \in (DOMAIN files) \ {path} |-> files[p]]

\* a with block that leaves the directory and its files behind
TemporaryDirectoryExit_Leak(files) == [exists |-> TRUE, files |-> files]

\* tempfile.TemporaryDirectory().__exit__: the directory and all its files go
TemporaryDirectoryExit(files) == [exists |-> FALSE, files |-> <<>>]

\* ------------------------------------------------------------ the engine
\* What one Ghostscript run can do: exit with a code and two streams (and
\* maybe an output file), exceed the 60 second timeout, or fail to execute.
ExitResponses ==
    [kind : {"exit"}, returncode : {0}, stderr : {T_EMPTY}, stdout : {T_EMPTY},
     wrote : {TRUE}, size : 1..MaxSize]
    \cup
    [kind : {"exit"}, returncode : {0}, stderr : {T_EMPTY}, stdout : {T_EMPTY},
     wrote : {FALSE}, size : {0}]
    \cup
    [kind : {"exit"}, returncode : {1},
     stderr : {T_EMPTY, T_ENCRYPTED, T_UNRECOVERABLE},
     stdout : {T_EMPTY, T_PASSWORD}, wrote : {FALSE}, size : {0}]

EngineResponses ==
    ExitResponses
    \cup
    [kind : {"timeout", "exception"}, returncode : {1},
     stderr : {T_UNRECOVERABLE}, stdout : {T_EMPTY}, wrote : {FALSE}, size : {0}]

\* a command line that never gets the -sPDFPassword argument
CommandCredential_Dropped(pw) == None

\* the credential the command line carries: "if password: cmd.extend(...)"
CommandCredential(pw) == IF pw # None /\ pw # "" THEN pw ELSE None

\* _compress_pdf reading the standard-output stream before the error stream
compress_pdf_StdoutFirst(r) ==
    IF r.kind = "timeout" THEN <<FALSE, MSG_TIMEOUT>>
    ELSE IF r.kind = "exception" THEN <<FALSE, MSG_EXEC_PREFIX \o r.stderr>>
    ELSE IF r.returncode = 0 THEN <<TRUE, MSG_SUCCESS>>
    ELSE <<FALSE, IF r.stdout # T_EMPTY THEN r.stdout
                  ELSE IF r.stderr # T_EMPTY THEN r.stderr
                  ELSE MSG_UNKNOWN>>

\* PDFCompressor._compress_pdf: <<success, message>> for an engine response
compress_pdf(r) ==
    IF r.kind = "timeout" THEN <<FALSE, MSG_TIMEOUT>>
    ELSE IF r.kind = "exception" THEN <<FALSE, MSG_EXEC_PREFIX \o r.stderr>>
    ELSE IF r.returncode = 0 THEN <<TRUE, MSG_SUCCESS>>
    ELSE <<FALSE, IF r.stderr # T_EMPTY THEN r.stderr
                  ELSE IF r.stdout # T_EMPTY THEN r.stdout
                  ELSE MSG_UNKNOWN>>

\* _find_ghostscript falling back to "gs" when shutil.which finds nothing
find_ghostscript_DefaultGs(inst) ==
    IF "gs" \in inst THEN "gs"
    ELSE IF "ghostscript" \in inst THEN "ghostscript"
    ELSE IF "/usr/local/bin/gs" \in inst THEN "/usr/local/bin/gs"
    ELSE "gs"

\* PDFCompressor._find_ghostscript: the first command that shutil.which finds
find_ghostscript(inst) ==
    IF "gs" \in inst THEN "gs"
    ELSE IF "ghostscript" \in inst THEN "ghostscript"
    ELSE IF "/usr/local/bin/gs" \in inst THEN "/usr/local/bin/gs"
    ELSE None

\* ------------------------------------------- decisions of the selector
\* line 112 with a strict comparison
AlreadyUnderTarget_Strict(original_size, target_size_mb) ==
    original_size < target_size_mb

\* line 112: the input already fits
AlreadyUnderTarget(original_size, target_size_mb) ==
    original_size <= target_size_mb

\* line 134: the attempt produced a usable file
AttemptUsable(ok, files, path) == ok /\ exists(files, path)

\* line 141: the attempt meets the target
MeetsTarget(current_size, target_size_mb) == current_size <= target_size_mb

\* line 142 with the rank comparison the wrong way round
SupersedesBest_RankInverted(bf, quality, bq) ==
    bf = NoFile \/ index(quality) < index(bq)

\* line 142: a target-meeting attempt supersedes the retained candidate
SupersedesBest(bf, quality, bq) ==
    bf = NoFile \/ index(quality) > index(bq)

\* line 153 with <= in place of <
SupersedesFallback_OrEqual(current_size, bs) == current_size <= bs

\* line 153 with the size comparison the wrong way round
SupersedesFallback_Inverted(current_size, bs) == current_size > bs

\* line 153: an attempt above the target supersedes the retained candidate
SupersedesFallback(current_size, bs) == current_size < bs

\* line 163 keeping the first error text instead of the latest
RecordError_FirstWins(err, msg) == IF err # T_EMPTY THEN err ELSE msg

\* line 163: last_error = error_msg
RecordError(err, msg) == msg

\* line 127 with a loop that stops one preset early
LadderExhausted_OffByOne(k) == k >= Len(quality_order) - 1

\* line 127: the loop has run the last preset
LadderExhausted(k) == k >= Len(quality_order)

\* line 171: the retained artifact can be delivered
BestAvailable(bf, files) == bf # NoFile /\ exists(files, bf)

\* lines 177-188: the message of a delivered result
DeliveredMessage(bs, target_size_mb) ==
    IF bs <= target_size_mb THEN MSG_MET ELSE MSG_PARTIAL

\* lines 195-201 without the .lower() calls
FailureMessage_CaseSensitive(err) ==
    IF Contains(err, "password") \/ Contains(err, "encrypted")
    THEN MSG_PASSWORD_HINT
    ELSE IF err # T_EMPTY THEN MSG_LAST_PREFIX \o err ELSE MSG_ALL_FAILED

\* lines 195-201: the message returned when nothing is delivered
FailureMessage(err) ==
    IF Contains(lower(err), "password") \/ Contains(lower(err), "encrypted")
    THEN MSG_PASSWORD_HINT
    ELSE IF err # T_EMPTY THEN MSG_LAST_PREFIX \o err ELSE MSG_ALL_FAILED

\* lines 249-261 without the sys.exit(1) of the failure branch
ExitCodeFor_AlwaysZero(ok) == 0

\* lines 249-261: the exit code main() ends with for a returned result
ExitCodeFor(ok) == IF ok THEN 0 ELSE 1

\* line 256: main() prints the -p hint
PrintsHint(message, password_flag) ==
    Contains(message, KATAKANA_PASSWORD) /\ ~password_flag

\* ------------------------------------------------------ inputs of a run
\* --size values (non-positive ones included), sizes of the input file,
\* what the user types at the getpass prompt, what is on the PATH
Targets == -1..MaxTarget
InputSizes == {0, MaxTarget, MaxSize}
Credentials == {"", "secret"}
Installs == {{}, {"ghostscript", "/usr/local/bin/gs"}}

NoResult == <<FALSE, T_EMPTY>>

\* no subprocess result is at hand (outside _compress_pdf)
NoResponse == [kind |-> "none", returncode |-> 0, stderr |-> T_EMPTY,
               stdout |-> T_EMPTY, wrote |-> FALSE, size |-> 0]

\* no earlier call of compress_to_target_size to compare with
NoFirst == [result |-> NoResult, best_quality |-> None, best_size |-> Inf,
            output_file |-> NoContent, attempts |-> <<>>]

Init ==
    /\ pc = "main"
    /\ args \in [size : Targets, password : BOOLEAN]
    /\ installed \in Installs
    /\ input_file \in {NoContent} \cup [size : InputSizes, from : {"input"}]
    /\ ghostscript_cmd = None
    /\ password = None
    /\ i = 0
    /\ success = FALSE
    /\ error_msg = T_EMPTY
    /\ best_file = NoFile
    /\ best_size = Inf
    /\ best_quality = None
    /\ last_error = T_EMPTY
    /\ temp_dir = FALSE
    /\ temp_files = <<>>
    /\ output_file = NoContent
    /\ attempts = <<>>
    /\ result = NoResult
    /\ printed_hint = FALSE
    /\ exit_code = NotExited
    /\ engine_result = NoResponse
    /\ run = 1
    /\ first = NoFirst

ladder_vars == <<i, success, error_msg, best_file, best_size, best_quality,
                 last_error, temp_dir, temp_files, attempts>>

\* ------------------------------------------------------------------ main
\* lines 228-234: --password asks for the credential; an empty one exits 1
MainGetPassword ==
    /\ pc = "main"
    /\ IF args.password
       THEN \E typed \in Credentials :
              /\ password' = typed
              /\ IF typed = ""
                 THEN pc' = "exited" /\ exit_code' = 1
                 ELSE pc' = "construct" /\ UNCHANGED exit_code
       ELSE /\ password' = None
            /\ pc' = "construct"
            /\ UNCHANGED exit_code
    /\ UNCHANGED <<run, first, engine_result, args,
                   installed, ghostscript_cmd, input_file, output_file,
                   result, printed_hint>>
    /\ UNCHANGED ladder_vars

\* lines 243-244 and 29-33: PDFCompressor(); RuntimeError when Ghostscript is
\* missing, which main() catches at line 263 and turns into exit code 1
MainConstruct ==
    /\ pc = "construct"
    /\ ghostscript_cmd' = find_ghostscript(installed)
    /\ IF find_ghostscript(installed) = None
       THEN pc' = "exited" /\ exit_code' = 1
       ELSE pc' = "compress" /\ UNCHANGED exit_code
    /\ UNCHANGED <<run, first, engine_result, args,
                   installed, password, input_file, output_file,
                   result, printed_hint>>
    /\ UNCHANGED ladder_vars

\* lines 249-261: report the result and leave
MainExit ==
    /\ pc = "returned"
    /\ printed_hint' = (~result[1] /\ PrintsHint(result[2], args.password))
    /\ exit_code' = ExitCodeFor(result[1])
    /\ pc' = "exited"
    /\ UNCHANGED <<run, first, engine_result, args,
                   installed, ghostscript_cmd, password, input_file,
                   output_file, result>>
    /\ UNCHANGED ladder_vars

\* ----------------------------------------------- compress_to_target_size
\* lines 103-126 with the input copied to the output before the ladder starts
CompressStart_CopyFirst ==
    /\ pc = "compress"
    /\ IF input_file = NoContent
       THEN /\ result' = <<FALSE, MSG_NOT_FOUND>>
            /\ pc' = "returned"
            /\ UNCHANGED <<output_file, i, temp_dir>>
       ELSE IF AlreadyUnderTarget(input_file.size, args.size)
       THEN /\ output_file' = input_file
            /\ result' = <<TRUE, MSG_COPIED>>
            /\ pc' = "returned"
            /\ UNCHANGED <<i, temp_dir>>
       ELSE /\ temp_dir' = TRUE
            /\ i' = 1
            /\ pc' = "attempt"
            /\ output_file' = input_file
            /\ UNCHANGED result
    /\ UNCHANGED <<run, first, engine_result, args,
                   installed, ghostscript_cmd, password, input_file,
                   printed_hint, exit_code>>
    /\ UNCHANGED <<success, error_msg, best_file, best_size, best_quality,
                   last_error, temp_files, attempts>>

\* lines 103-126: missing input, the input already fits, or enter the ladder
CompressStart ==
    /\ pc = "compress"
    /\ IF input_file = NoContent
       THEN /\ result' = <<FALSE, MSG_NOT_FOUND>>
            /\ pc' = "returned"
            /\ UNCHANGED <<output_file, i, temp_dir>>
       ELSE IF AlreadyUnderTarget(input_file.size, args.size)
       THEN /\ output_file' = input_file
            /\ result' = <<TRUE, MSG_COPIED>>
            /\ pc' = "returned"
            /\ UNCHANGED <<i, temp_dir>>
       ELSE /\ temp_dir' = TRUE
            /\ i' = 1
            /\ pc' = "attempt"
            /\ UNCHANGED <<output_file, result>>
    /\ UNCHANGED <<run, first, engine_result, args,
                   installed, ghostscript_cmd, password, input_file,
                   printed_hint, exit_code>>
    /\ UNCHANGED <<success, error_msg, best_file, best_size, best_quality,
                   last_error, temp_files, attempts>>

\* lines 127-132: one engine invocation for quality_order[i]
Attempt ==
    /\ pc = "attempt"
    /\ \E r \in EngineResponses :
         LET quality == quality_order[i]
             res == compress_pdf(r)
         IN /\ temp_files' =
                 IF r.wrote
                 THEN (TempOutputPath(quality) :>
                          [size |-> r.size, from |-> quality]) @@ temp_files
                 ELSE temp_files
            /\ engine_result' = r
            /\ success' = res[1]
            /\ error_msg' = res[2]
            /\ attempts' = Append(attempts,
                 [quality |-> quality,
                  cmd |-> ghostscript_cmd,
                  setting |-> QUALITY_SETTINGS[quality],
                  credential |-> CommandCredential(password),
                  success |-> res[1],
                  wrote |-> r.wrote,
                  size |-> r.size,
                  msg |-> res[2]])
    /\ pc' = "select"
    /\ UNCHANGED <<run, first, args,
                   installed, ghostscript_cmd, password, input_file,
                   output_file, result, printed_hint, exit_code>>
    /\ UNCHANGED <<i, best_file, best_size, best_quality, last_error, temp_dir>>

\* lines 134-144, 153-155, 162-163: judge the attempt; when it supersedes the
\* retained candidate, delete the retained artifact first
Select ==
    /\ pc = "select"
    /\ LET quality == quality_order[i]
           temp_output == TempOutputPath(quality)
           drop == IF best_file # NoFile /\ exists(temp_files, best_file)
                   THEN remove(temp_files, best_file) ELSE temp_files
       IN IF AttemptUsable(success, temp_files, temp_output)
          THEN LET current_size == temp_files[temp_output].size
               IN /\ UNCHANGED last_error
                  /\ IF MeetsTarget(current_size, args.size)
                     THEN IF SupersedesBest(best_file, quality, best_quality)
                          THEN temp_files' = drop /\ pc' = "retain_best"
                          ELSE UNCHANGED temp_files /\ pc' = "next"
                     ELSE IF SupersedesFallback(current_size, best_size)
                          THEN temp_files' = drop /\ pc' = "retain_fallback"
                          ELSE UNCHANGED temp_files /\ pc' = "next"
          ELSE /\ last_error' = RecordError(last_error, error_msg)
               /\ pc' = "next"
               /\ UNCHANGED temp_files
    /\ engine_result' = NoResponse
    /\ UNCHANGED <<run, first, args,
                   installed, ghostscript_cmd, password, input_file,
                   output_file, result, printed_hint, exit_code>>
    /\ UNCHANGED <<i, success, error_msg, best_file, best_size, best_quality,
                   temp_dir, attempts>>

\* the assignments shared by lines 145-148 and 156-159
Retain(path) ==
    LET temp_output == TempOutputPath(quality_order[i])
    IN /\ best_file' = path
       /\ temp_files' = copy2(temp_files, temp_output, path)
       /\ best_size' = temp_files[temp_output].size
       /\ best_quality' = quality_order[i]
       /\ pc' = "next"
       /\ UNCHANGED <<run, first, engine_result, args,
                   installed, ghostscript_cmd, password, input_file,
                      output_file, result, printed_hint, exit_code>>
       /\ UNCHANGED <<i, success, error_msg, last_error, temp_dir, attempts>>

\* lines 145-148: retain the attempt as best_<quality>.pdf
RetainBest ==
    /\ pc = "retain_best"
    /\ Retain(BestPath(quality_order[i]))

\* lines 156-159: retain the attempt as fallback_<quality>.pdf
RetainFallback ==
    /\ pc = "retain_fallback"
    /\ Retain(FallbackPath(quality_order[i]))

\* lines 127 and 167: go on to the next preset, or leave the loop
NextPreset ==
    /\ pc = "next"
    /\ IF LadderExhausted(i)
       THEN pc' = "exhausted" /\ UNCHANGED i
       ELSE pc' = "attempt" /\ i' = i + 1
    /\ UNCHANGED <<run, first, engine_result, args,
                   installed, ghostscript_cmd, password, input_file,
                   output_file, result, printed_hint, exit_code>>
    /\ UNCHANGED <<success, error_msg, best_file, best_size, best_quality,
                   last_error, temp_dir, temp_files, attempts>>

\* line 126: the with block ends and removes the temporary directory
ExitWith ==
    /\ pc = "exhausted"
    /\ temp_dir' = TemporaryDirectoryExit(temp_files).exists
    /\ temp_files' = TemporaryDirectoryExit(temp_files).files
    /\ pc' = "finish"
    /\ UNCHANGED <<run, first, engine_result, args,
                   installed, ghostscript_cmd, password, input_file,
                   output_file, result, printed_hint, exit_code>>
    /\ UNCHANGED <<i, success, error_msg, best_file, best_size, best_quality,
                   last_error, attempts>>

\* lines 171-201: deliver the retained artifact, or report the failure
Finish ==
    /\ pc = "finish"
    /\ IF BestAvailable(best_file, temp_files)
       THEN /\ output_file' = temp_files[best_file]
            /\ result' = <<TRUE, DeliveredMessage(best_size, args.size)>>
       ELSE /\ result' = <<FALSE, FailureMessage(last_error)>>
            /\ UNCHANGED output_file
    /\ pc' = "returned"
    /\ UNCHANGED <<run, first, engine_result, args,
                   installed, ghostscript_cmd, password, input_file,
                   printed_hint, exit_code>>
    /\ UNCHANGED ladder_vars

Next ==
    \/ MainGetPassword
    \/ MainConstruct
    \/ CompressStart
    \/ Attempt
    \/ Select
    \/ RetainBest
    \/ RetainFallback
    \/ NextPreset
    \/ ExitWith
    \/ Finish
    \/ MainExit

Spec == Init /\ [][Next]_vars

\* -------------------------------- compress_to_target_size called twice
\* locals that keep the values the first call left in them
StaleLocals ==
    [best_file |-> best_file, best_size |-> best_size,
     best_quality |-> best_quality, last_error |-> last_error]

\* lines 121-124: every call starts from its own initial locals
FreshLocals ==
    [best_file |-> NoFile, best_size |-> Inf,
     best_quality |-> None, last_error |-> T_EMPTY]

\* lines 99-124, second call: the caller keeps what the first call returned
\* and calls compress_to_target_size again with the same arguments; the
\* output file of the first call stays on disk
Rerun ==
    /\ pc = "returned"
    /\ run = 1
    /\ run' = 2
    /\ first' = [result |-> result, best_quality |-> best_quality,
                 best_size |-> best_size, output_file |-> output_file,
                 attempts |-> attempts]
    /\ best_file' = FreshLocals.best_file
    /\ best_size' = FreshLocals.best_size
    /\ best_quality' = FreshLocals.best_quality
    /\ last_error' = FreshLocals.last_error
    /\ i' = 0
    /\ success' = FALSE
    /\ error_msg' = T_EMPTY
    /\ attempts' = <<>>
    /\ result' = NoResult
    /\ pc' = "compress"
    /\ UNCHANGED <<engine_result, args, installed, ghostscript_cmd, password,
                   input_file, output_file, temp_dir, temp_files,
                   printed_hint, exit_code>>

\* lines 127-132 in the first call: the engine answers as it likes
FirstAttempt == run = 1 /\ Attempt

\* lines 127-132 in the second call: the engine is deterministic, so the
\* preset gets the outcome, size and text it got in the first call
ReplayAttempt ==
    /\ run = 2
    /\ Attempt
    /\ attempts'[i] = first.attempts[i]

\* one installed engine, no --password, a positive target: inputs with
\* which main() reaches the call and the call's precondition holds
InitTwice ==
    /\ Init
    /\ installed # {}
    /\ ~args.password
    /\ args.size > 0

NextTwice ==
    \/ MainGetPassword
    \/ MainConstruct
    \/ CompressStart
    \/ FirstAttempt
    \/ ReplayAttempt
    \/ Select
    \/ RetainBest
    \/ RetainFallback
    \/ NextPreset
    \/ ExitWith
    \/ Finish
    \/ Rerun
    \/ MainExit

SpecTwice == InitTwice /\ [][NextTwice]_vars

\* ------------------------------------------------ vocabulary of the claims
Max(S) == CHOOSE x \in S : \A y \in S : y <= x

\* the attempts that produced a usable artifact, and those that did not
Succeeded(a) == a.success /\ a.wrote
SuccessfulAttempts == {k \in 1..Len(attempts) : Succeeded(attempts[k])}
FailedAttempts == {k \in 1..Len(attempts) : ~Succeeded(attempts[k])}
MeetingAttempts == {k \in SuccessfulAttempts : attempts[k].size <= args.size}

\* compress_to_target_size has returned to main()
Returned == pc \in {"returned", "exited"} /\ result # NoResult
EnteredLadder == Len(attempts) > 0

\* the RunResult status of a returned run
Verdict ==
    IF ~Returned THEN "None"
    ELSE IF result = <<TRUE, MSG_COPIED>> THEN "AlreadyUnderTarget"
    ELSE IF result = <<TRUE, MSG_MET>> THEN "Met"
    ELSE IF result = <<TRUE, MSG_PARTIAL>> THEN "PartialOnly"
    ELSE IF result = <<FALSE, MSG_NOT_FOUND>> THEN "MissingInput"
    ELSE "Failed"

\* the candidate held in best_file/best_size/best_quality meets the target
BestMeetsTarget == best_file # NoFile /\ best_size <= args.size

\* text occurs in message as a contiguous run of tokens
Includes(message, text) ==
    \E off \in 0..(Len(message) - Len(text)) :
        \A k \in 1..Len(text) : message[off + k] = text[k]

\* the text names an access-control problem, in any letter case
HasAccessIndicator(text) ==
    \E k \in 1..Len(text) :
        text[k] \in {"password", "Password", "PASSWORD",
                     "encrypted", "Encrypted", "ENCRYPTED"}

\* ------------------------------------------------------------ the claims
\* C1: a run that entered the ladder and in which at least one attempt
\* succeeded copies the retained candidate to the output and returns Met or
\* PartialOnly; Failed is returned only when no attempt succeeded.
C1_SuccessIsDelivered ==
    (pc = "returned" /\ EnteredLadder /\ args.size > 0)
        => /\ SuccessfulAttempts # {}
                => /\ Verdict \in {"Met", "PartialOnly"}
                   /\ output_file = [size |-> best_size, from |-> best_quality]
           /\ Verdict = "Failed" => SuccessfulAttempts = {}

\* C2: when the ladder is exhausted the candidate held is the highest-quality
\* successful attempt among those meeting the target if there is one, and
\* otherwise a successful attempt of minimum size; no successful attempt
\* leaves no candidate.
C2_SelectedPreset ==
    pc = "exhausted"
        => IF MeetingAttempts # {}
           THEN /\ best_quality = quality_order[Max(MeetingAttempts)]
                /\ best_size = attempts[Max(MeetingAttempts)].size
           ELSE IF SuccessfulAttempts # {}
           THEN \E k \in SuccessfulAttempts :
                    /\ best_quality = attempts[k].quality
                    /\ best_size = attempts[k].size
                    /\ \A j \in SuccessfulAttempts :
                           attempts[k].size <= attempts[j].size
           ELSE best_quality = None /\ best_file = NoFile

\* C2 witness: sizes 1, 3, 2, 3 for screen, ebook, printer, prepress with
\* target 2 (not monotonic): printer is held
C2_Witness ==
    /\ pc = "exhausted"
    /\ args.size = 2
    /\ SuccessfulAttempts = 1..4
    /\ [k \in 1..4 |-> attempts[k].size] = <<1, 3, 2, 3>>
    /\ best_quality = "printer"

\* C4: an existing input no larger than the target is never given to the
\* engine; the run returns AlreadyUnderTarget and the output is the input.
C4_AlreadyUnderTarget ==
    (input_file # NoContent /\ input_file.size <= args.size)
        => /\ attempts = <<>>
           /\ ~temp_dir
           /\ Returned => /\ Verdict = "AlreadyUnderTarget"
                          /\ output_file = input_file

\* C4 witness: the input is exactly as large as the target and was copied
C4_Witness ==
    /\ pc = "returned"
    /\ input_file # NoContent
    /\ input_file.size = args.size
    /\ Verdict = "AlreadyUnderTarget"
    /\ output_file = input_file

\* C5: once the candidate held meets the target, the candidate held meets the
\* target after every later step of the run.
C5_MetCandidateStays == [][BestMeetsTarget => BestMeetsTarget']_vars

\* C5 witness: a later attempt succeeded above the target while a candidate
\* meeting the target was held, and that candidate is still held
C5_Witness ==
    /\ pc = "next"
    /\ BestMeetsTarget
    /\ Succeeded(attempts[i])
    /\ attempts[i].size > args.size
    /\ best_quality # quality_order[i]

\* C6: the attempts made are always the first presets of the ladder in its
\* order, one engine invocation per preset and loop pass; a run leaves the
\* ladder only after all four presets, whatever failed; no state short of the
\* process exit is stuck, and the run returns a verdict.
C6_EveryPresetAttempted ==
    /\ Len(attempts) <= Len(quality_order)
    /\ \A k \in 1..Len(attempts) : attempts[k].quality = quality_order[k]
    /\ pc = "attempt" => Len(attempts) = i - 1
    /\ pc \in {"select", "retain_best", "retain_fallback", "next"}
           => Len(attempts) = i
    /\ (pc \in {"exhausted", "finish", "returned", "exited"} /\ EnteredLadder)
           => [k \in 1..Len(attempts) |-> attempts[k].quality] = quality_order
    /\ pc # "exited" => ENABLED Next
    /\ (pc = "returned" /\ EnteredLadder)
           => Verdict \in {"Met", "PartialOnly", "Failed"}

\* C6 witness: the first preset timed out, the last one succeeded, and the
\* run returned after four attempts
C6_Witness ==
    /\ pc = "returned"
    /\ Len(attempts) = 4
    /\ attempts[1].msg = MSG_TIMEOUT
    /\ ~Succeeded(attempts[2])
    /\ Succeeded(attempts[4])

\* C7: with a target size <= 0 (and a non-empty input file) the program
\* aborts before any work: no engine invocation, no output file, exit code 1.
C7_NonPositiveTargetAborts ==
    (args.size <= 0 /\ input_file # NoContent /\ input_file.size > 0)
        => /\ attempts = <<>>
           /\ output_file = NoContent
           /\ pc = "exited" => exit_code = 1

\* C8: the process exits 0 exactly when the verdict is AlreadyUnderTarget, Met
\* or PartialOnly, and 1 when the run Failed, the input is missing, or main()
\* gave up before the run (no engine, empty credential).
C8_ExitCode ==
    pc = "exited"
        => /\ exit_code \in {0, 1}
           /\ exit_code = 0
                <=> Verdict \in {"AlreadyUnderTarget", "Met", "PartialOnly"}
           /\ Verdict \in {"Failed", "MissingInput", "None"} => exit_code = 1

\* C8 witness: a run that copied the input exited 0
C8_Witness ==
    /\ pc = "exited"
    /\ Verdict = "AlreadyUnderTarget"
    /\ exit_code = 0

\* the diagnostic text of the most recent failed attempt
LastFailedText == attempts[Max(FailedAttempts)].msg

C10_TempDirRemoved ==
    (Returned /\ EnteredLadder) => (~temp_dir /\ DOMAIN temp_files = {})

\* C10 witness: a run that retained an artifact has returned, and neither the
\* directory nor the artifact exists
C10_Witness ==
    /\ pc = "returned"
    /\ EnteredLadder
    /\ best_file # NoFile
    /\ ~temp_dir
    /\ ~exists(temp_files, best_file)

\* the retained artifact files now in the temporary directory
RetainedFiles == {p \in DOMAIN temp_files : p[1] \in {"best", "fallback"}}

\* C11: the temporary directory never holds more than one retained artifact;
\* between the decision to supersede and the copy of the new artifact it
\* holds none, and otherwise the one it holds is best_file.
C11_AtMostOneRetained ==
    /\ Cardinality(RetainedFiles) <= 1
    /\ pc \in {"retain_best", "retain_fallback"} => RetainedFiles = {}
    /\ (temp_dir /\ best_file # NoFile
            /\ pc \notin {"retain_best", "retain_fallback"})
           => RetainedFiles = {best_file}

\* C11 witness: the screen attempt was retained, printer superseded it, and
\* best_printer.pdf is the only retained artifact
C11_Witness ==
    /\ pc = "next"
    /\ i = 3
    /\ Succeeded(attempts[1])
    /\ best_file = BestPath("printer")
    /\ RetainedFiles = {best_file}

\* C12: with no Ghostscript command on the PATH no engine invocation happens,
\* no temporary directory or output file is created, and the process ends
\* with a non-zero exit code without calling compress_to_target_size.
C12_MissingEngineAborts ==
    (installed \cap {"gs", "ghostscript", "/usr/local/bin/gs"} = {})
        => /\ attempts = <<>>
           /\ ~temp_dir
           /\ output_file = NoContent
           /\ result = NoResult
           /\ pc \in {"main", "construct", "exited"}
           /\ pc = "exited" => exit_code # 0

\* C12 witness: no credential was asked for and the process exited 1 because
\* nothing is installed
C12_Witness ==
    /\ pc = "exited"
    /\ installed = {}
    /\ ~args.password
    /\ exit_code = 1

\* C13: once main() is past the prompt a requested credential has been
\* typed; an empty one ends the process with exit code 1 and no engine
\* invocation; a non-empty one is carried by every invocation; without
\* --password no invocation carries a credential.
C13_Credential ==
    /\ (args.password /\ pc # "main") => password \in Credentials
    /\ (args.password /\ password = "")
           => (pc = "exited" /\ exit_code = 1 /\ attempts = <<>>)
    /\ args.password
           => \A k \in 1..Len(attempts) :
                  attempts[k].credential = password /\ password # ""
    /\ ~args.password
           => \A k \in 1..Len(attempts) : attempts[k].credential = None

\* C13 witness: a run with --password made four invocations, each carrying
\* the credential typed at the prompt
C13_Witness ==
    /\ pc = "returned"
    /\ args.password
    /\ Len(attempts) = 4
    /\ \A k \in 1..4 : attempts[k].credential = "secret"

\* the successful attempts of minimum size
SmallestAttempts ==
    {k \in SuccessfulAttempts :
        \A j \in SuccessfulAttempts : attempts[k].size <= attempts[j].size}

Min(S) == CHOOSE x \in S : \A y \in S : x <= y

\* C19: when the ladder is exhausted, the candidate held is the last
\* target-meeting attempt whatever the sizes of the target-meeting attempts
\* (equal or larger ones included); when no attempt met the target it is the
\* earliest attempt of minimum size, so an equal size never supersedes.
C19_TieBreaks ==
    pc = "exhausted"
        => IF MeetingAttempts # {}
           THEN best_file = BestPath(quality_order[Max(MeetingAttempts)])
           ELSE SuccessfulAttempts # {}
                    => best_file = FallbackPath(quality_order[Min(SmallestAttempts)])

\* C19 witness: sizes 3, 2, 2, 3 with target 1: ebook and printer tie for the
\* minimum and ebook is held
C19_Witness ==
    /\ pc = "exhausted"
    /\ args.size = 1
    /\ SuccessfulAttempts = 1..4
    /\ [k \in 1..4 |-> attempts[k].size] = <<3, 2, 2, 3>>
    /\ best_quality = "ebook"

\* C19 second witness: sizes 1, 2, 2 for screen, ebook, printer with target 2
\* and a failed prepress: printer, of equal size to ebook, is held
C19_MeetingTie ==
    /\ pc = "exhausted"
    /\ args.size = 2
    /\ SuccessfulAttempts = 1..3
    /\ [k \in 1..3 |-> attempts[k].size] = <<1, 2, 2>>
    /\ best_quality = "printer"

\* C15: a failed attempt leaves the candidate held and the retained artifact
\* as they were, and when the ladder is exhausted last_error is the text of
\* the failed attempt of highest index, or empty when no attempt failed.
C15_FailedAttemptsFrame ==
    /\ [](pc = "exhausted"
            => last_error = IF FailedAttempts = {} THEN T_EMPTY
                            ELSE LastFailedText)
    /\ [][(pc = "select" /\ ~Succeeded(attempts[i]))
            => /\ UNCHANGED <<best_file, best_size, best_quality>>
               /\ RetainedFiles' = RetainedFiles
               /\ pc' = "next"]_vars

\* C15 witness: screen timed out, ebook was retained, printer failed with
\* the ENCRYPTED text, prepress succeeded: the ENCRYPTED text is last_error
\* and the candidate is still held
C15_Witness ==
    /\ pc = "exhausted"
    /\ attempts[1].msg = MSG_TIMEOUT
    /\ Succeeded(attempts[2])
    /\ attempts[3].msg = T_ENCRYPTED
    /\ Succeeded(attempts[4])
    /\ last_error = T_ENCRYPTED
    /\ best_file # NoFile

\* C16: an attempt whose engine run reported success but left no output file
\* contributes no candidate, and the text recorded for it in last_error is a
\* failure diagnostic, not the engine's success message.
C16_MissingOutputIsFailure ==
    (pc = "next" /\ attempts[i].success /\ ~attempts[i].wrote
        /\ args.size > 0)
        => /\ best_quality # quality_order[i]
           /\ last_error # T_EMPTY
           /\ last_error # MSG_SUCCESS

\* C17: _compress_pdf always returns: exit code 0 gives success; another exit
\* code gives failure with the error stream if it is not empty, else the
\* standard-output stream if it is not empty, else the generic message; a
\* timeout or an execution error gives failure with a non-empty text.
C17_EngineResult ==
    /\ pc = "select"
        => /\ engine_result \in EngineResponses
           /\ (engine_result.kind = "exit" /\ engine_result.returncode = 0)
                  => success
           /\ (engine_result.kind = "exit" /\ engine_result.returncode # 0)
                  => /\ ~success
                     /\ engine_result.stderr # T_EMPTY
                            => error_msg = engine_result.stderr
                     /\ (engine_result.stderr = T_EMPTY
                            /\ engine_result.stdout # T_EMPTY)
                            => error_msg = engine_result.stdout
                     /\ (engine_result.stderr = T_EMPTY
                            /\ engine_result.stdout = T_EMPTY)
                            => error_msg = MSG_UNKNOWN
           /\ engine_result.kind = "timeout"
                  => (~success /\ error_msg = MSG_TIMEOUT)
           /\ engine_result.kind = "exception"
                  => (~success /\ Includes(error_msg, engine_result.stderr)
                               /\ error_msg # T_EMPTY)
    /\ pc = "attempt" => ENABLED Attempt

\* C17 witness: a non-zero exit with both streams filled returned the error
\* stream
C17_Witness ==
    /\ pc = "select"
    /\ engine_result.kind = "exit"
    /\ engine_result.returncode # 0
    /\ engine_result.stderr = T_UNRECOVERABLE
    /\ engine_result.stdout = T_PASSWORD
    /\ ~success
    /\ error_msg = T_UNRECOVERABLE

\* C18: a run that returned a failure (missing input, or Failed after the
\* ladder) has left the output path as it was, and the output path holds a
\* file only after a run that returned AlreadyUnderTarget, Met or PartialOnly.
C18_FailureLeavesOutput ==
    /\ (Returned /\ Verdict \in {"Failed", "MissingInput"})
           => output_file = NoContent
    /\ output_file # NoContent
           => (Returned
               /\ Verdict \in {"AlreadyUnderTarget", "Met", "PartialOnly"})

\* C18 witness: all four presets failed, the run returned Failed and there is
\* no output file
C18_Witness ==
    /\ pc = "returned"
    /\ Verdict = "Failed"
    /\ FailedAttempts = 1..4
    /\ output_file = NoContent

\* C14: the second of two calls with the same input, target and engine
\* answers starts from no candidate, no error text and no temporary files,
\* and returns what the first returned: the same result, the same candidate
\* preset and size, and the same output file content.
C14_SecondRunSame ==
    /\ (run = 2 /\ pc = "compress")
           => /\ best_file = NoFile
              /\ best_size = Inf
              /\ best_quality = None
              /\ last_error = T_EMPTY
              /\ ~temp_dir
              /\ temp_files = <<>>
    /\ (run = 2 /\ pc = "returned")
           => /\ result = first.result
              /\ best_quality = first.best_quality
              /\ best_size = first.best_size
              /\ output_file = first.output_file
              /\ attempts = first.attempts

\* C14 witness: the second call went through the ladder, holds a candidate
\* and a recorded error, and returned what the first call returned
C14_Witness ==
    /\ run = 2
    /\ pc = "returned"
    /\ Len(attempts) = 4
    /\ best_quality # None
    /\ FailedAttempts # {}
    /\ result = first.result

====
